---- MODULE Spec2Model ----
(***************************************************************************)
(* A model of the episode linter (src/ssulhwa/workflow/validate.py) and of *)
(* the context assembly helpers (src/ssulhwa/workflow/context_assembly.py).*)
(*                                                                         *)
(* A Python str is modelled as a sequence of Unicode code points, so that  *)
(* strip / startswith / split / the regular expressions and the Hangul     *)
(* code point arithmetic are computed as the code computes them.           *)
(***************************************************************************)
EXTENDS Integers, Sequences, FiniteSets, TLC

VARIABLES
    pc,               \* position of the running function
    sentence,         \* _classify_ending: its argument
    ending,           \* _classify_ending: its return value ("" before the call)
    text,             \* the document handed to the running function (a str)
    body,             \* extract_body: its return value
    sentences,        \* check_f6_sentence_endings: the split units
    sentence_texts,   \* check_f6_sentence_endings: the units kept for classification
    categories,       \* check_f6_sentence_endings: their classes
    i,                \* check_f6_sentence_endings: loop index of the run scan (0-based)
    start,            \* check_f6_sentence_endings: start of the open run, or -1
    consecutive,      \* check_f6_sentence_endings: length of the open run
    violation_groups, \* check_f6_sentence_endings: the runs reported so far
    exists,           \* validate: path.exists()
    results,          \* validate: the check records produced so far
    overall,          \* validate: the verdict
    fail_items,       \* validate: ids of the failing checks
    ep_num,           \* extract_ep_outline: the episode number
    result,           \* extract_ep_outline: the returned dict
    outline,          \* extract_characters / extract_world_sections: the outline text
    characters_text,  \* extract_characters: the characters document
    world_text,       \* extract_world_sections: the world document
    mentioned,        \* extract_characters: the selected section headers
    needed_sections,  \* extract_world_sections: the selected section names
    extracted,        \* extract_characters / extract_world_sections: the sections found
    characters,       \* extract_characters: its return value
    world             \* extract_world_sections: its return value

clsVars == <<sentence, ending>>
draftVars == <<text, body>>
f6Vars == <<sentences, sentence_texts, categories, i, start, consecutive, violation_groups>>
valVars == <<exists, results, overall, fail_items>>
outVars == <<ep_num, result>>
loreVars ==
    <<outline, characters_text, world_text, mentioned, needed_sections, extracted, characters, world>>
vars == <<pc, clsVars, draftVars, f6Vars, valVars, outVars, loreVars>>

\* The variables of a function that is not running.
IdleCls == sentence = <<>> /\ ending = ""
IdleDraft == text = <<>> /\ body = <<>>
IdleF6 ==
    /\ sentences = <<>> /\ sentence_texts = <<>> /\ categories = <<>>
    /\ i = 0 /\ start = -1 /\ consecutive = 0 /\ violation_groups = <<>>
IdleVal == exists = TRUE /\ results = <<>> /\ overall = "" /\ fail_items = <<>>
IdleOut == ep_num = 0 /\ result = [outline |-> <<>>, prev_ending_hook |-> <<>>, ep_title |-> <<>>]
IdleLore ==
    /\ outline = <<>> /\ characters_text = <<>> /\ world_text = <<>>
    /\ mentioned = <<>> /\ needed_sections = {} /\ extracted = <<>>
    /\ characters = <<>> /\ world = <<>>

(***************************************************************************)
(* Bounds of the model.                                                    *)
(***************************************************************************)
MaxSentenceLen == 4

(***************************************************************************)
(* String helpers (Python str operations on sequences of code points).     *)
(***************************************************************************)
MinOf(S) == CHOOSE m \in S : \A k \in S : m <= k
MaxOf(S) == 0 - MinOf({0 - k : k \in S})

\* All sequences over alphabet A of length 0..n.
SeqsUpTo(A, n) == UNION {[1..k -> A] : k \in 0..n}

\* s[-n:]
LastN(s, n) == IF Len(s) <= n THEN s ELSE SubSeq(s, Len(s) - n + 1, Len(s))

\* s.startswith(p), s.endswith(p)
StartsWith(s, p) == Len(s) >= Len(p) /\ SubSeq(s, 1, Len(p)) = p
EndsWith(s, p) == Len(s) >= Len(p) /\ SubSeq(s, Len(s) - Len(p) + 1, Len(s)) = p

\* s.rstrip(chars)
RStripChars(s, chars) ==
    LET keep == {k \in 1..Len(s) : s[k] \notin chars}
    IN  IF keep = {} THEN <<>> ELSE SubSeq(s, 1, MaxOf(keep))

(***************************************************************************)
(* validate.py: _has_ssang_siot_batchim, _classify_ending                  *)
(***************************************************************************)
HANGUL_BASE == 44032        \* 0xAC00
HANGUL_LAST == 11171
JONGSEONG_COUNT == 28
SSANG_SIOT == 20
CH_DA == 45796              \* U+B2E4, the syllable "da"
CH_ISS == 51080             \* U+C788, "iss" (to exist)
CH_GESS == 44192            \* U+ACA0, "gess" (conjecture / future)

\* ".!? \t"
ENDING_STRIP == {46, 33, 63, 32, 9}

\* Mutant: the range test of the syllable block is dropped.
_has_ssang_siot_batchim_norange(char) ==
    (char - HANGUL_BASE) % JONGSEONG_COUNT = SSANG_SIOT

_has_ssang_siot_batchim(char) ==
    LET code == char - HANGUL_BASE
    IN  IF code < 0 \/ code > HANGUL_LAST
        THEN FALSE
        ELSE code % JONGSEONG_COUNT = SSANG_SIOT

\* Mutant: the exception is applied when "iss"/"gess" occurs anywhere in the last
\* two syllables before "da" (so "isseotda" is taken for "itda").
_classify_ending_wide_exception(s) ==
    LET clean == RStripChars(s, ENDING_STRIP)
    IN  IF Len(clean) >= 2 /\ clean[Len(clean)] = CH_DA
        THEN LET prev == clean[Len(clean) - 1]
                 near == {clean[k] : k \in {j \in 1..Len(clean) : j >= Len(clean) - 2}}
             IN  IF _has_ssang_siot_batchim(prev)
                 THEN IF near \cap {CH_ISS, CH_GESS} # {} THEN "OTHER_DA" ELSE "PAST"
                 ELSE "OTHER_DA"
        ELSE "NON_DA"

_classify_ending(s) ==
    LET clean == RStripChars(s, ENDING_STRIP)
    IN  IF Len(clean) >= 2 /\ clean[Len(clean)] = CH_DA
        THEN LET prev == clean[Len(clean) - 1]
             IN  IF _has_ssang_siot_batchim(prev)
                 THEN IF prev \in {CH_ISS, CH_GESS} THEN "OTHER_DA" ELSE "PAST"
                 ELSE "OTHER_DA"
        ELSE "NON_DA"

(***************************************************************************)
(* SpecClassify: _classify_ending applied to every sentence over a small   *)
(* alphabet, and to the example sentences of the documentation.            *)
(***************************************************************************)
\* "da", "wot" (U+C6E0, ss-final), "un" (U+C6B4, n-final), "iss", "gess",
\* '.', '!', ' ', U+ABF8 (8 below the syllable block: -8 mod 28 = 20 in Python),
\* U+D7B8 (offset 11192 > 11171, 11192 mod 28 = 20).
ClassifyAlphabet == {45796, 50912, 50868, 51080, 44192, 46, 33, 32, 44024, 55224}

EX_SSAWOTDA == <<44536, 45716, 32, 49912, 50912, 45796, 46>>   \* "geuneun ssawotda."
EX_SSAUNDA == <<44536, 45716, 32, 49912, 50868, 45796, 46>>    \* "geuneun ssaunda."
EX_ISSEOTDA == <<44536, 44032, 32, 51080, 50632, 45796, 46>>   \* "geuga isseotda."
EX_ITDA == <<44536, 44032, 32, 51080, 45796, 46>>              \* "geuga itda."
ClassifyExamples == {EX_SSAWOTDA, EX_SSAUNDA, EX_ISSEOTDA, EX_ITDA}

InitClassify ==
    /\ pc = "classify"
    /\ sentence \in SeqsUpTo(ClassifyAlphabet, MaxSentenceLen) \cup ClassifyExamples
    /\ ending = ""
    /\ IdleDraft /\ IdleF6 /\ IdleVal /\ IdleOut /\ IdleLore

ClassifyEnding ==
    /\ pc = "classify"
    /\ ending' = _classify_ending(sentence)
    /\ pc' = "done"
    /\ UNCHANGED <<sentence, draftVars, f6Vars, valVars, outVars, loreVars>>

NextClassify == ClassifyEnding

SpecClassify == InitClassify /\ [][NextClassify]_vars

(***************************************************************************)
(* Claims about the sentence classifier.                                   *)
(***************************************************************************)
\* The sentence-final marks that are ignored at the end of a unit: '.', '!',
\* '?', and blanks (space, tab) between or after them.
TrailingMarks == {46, 33, 63, 32, 9}

\* What remains of s once its trailing marks are removed: the prefix of s that
\* does not end in a mark and is followed by marks only.
Remaining(s) ==
    LET n == CHOOSE k \in 0..Len(s) :
                 /\ k = 0 \/ s[k] \notin TrailingMarks
                 /\ \A j \in (k + 1)..Len(s) : s[j] \in TrailingMarks
    IN  SubSeq(s, 1, n)

\* c is a Hangul syllable (offset 0..11171 from U+AC00) whose offset is 20 mod 28.
IsSsFinalSyllable(c) ==
    c \in {44032 + off : off \in {28 * q + 20 : q \in 0..398}}

ExpectedEnding(s) ==
    LET r == Remaining(s)
        n == Len(r)
    IN  IF n < 2 \/ r[n] # 45796 THEN "NON_DA"
        ELSE IF IsSsFinalSyllable(r[n - 1]) /\ r[n - 1] \notin {51080, 44192}
             THEN "PAST"
             ELSE "OTHER_DA"

\* C2: _classify_ending returns exactly one of PAST, OTHER_DA, NON_DA, decided by
\* the last two characters left after the trailing marks are stripped: NON_DA when
\* the last one is not "da" (or fewer than two remain); PAST exactly when the one
\* before "da" is a Hangul syllable with offset in 0..11171, offset mod 28 = 20,
\* and is neither "iss" nor "gess"; OTHER_DA otherwise. "geuneun ssawotda." is
\* PAST and "geuneun ssaunda." is OTHER_DA.
C2_ClassifyEnding ==
    pc = "done" =>
        /\ ending \in {"PAST", "OTHER_DA", "NON_DA"}
        /\ ending = ExpectedEnding(sentence)
        /\ sentence = EX_SSAWOTDA => ending = "PAST"
        /\ sentence = EX_SSAUNDA => ending = "OTHER_DA"

C2_Witness == pc = "done" /\ sentence = EX_SSAWOTDA /\ ending = "PAST"

\* C3 (as claimed): "geuga isseotda." is classified OTHER_DA.
C3_Original == (pc = "done" /\ sentence = EX_ISSEOTDA) => ending = "OTHER_DA"

\* C3 (amended): "geuga isseotda." is classified PAST: the syllable before the
\* final "da" is "eot" (U+C5C8), which is ss-final and is not one of the two
\* exceptions; the exception applies to "geuga itda.", which is OTHER_DA.
C3_IsseotdaIsPast ==
    pc = "done" =>
        /\ sentence = EX_ISSEOTDA => ending = "PAST"
        /\ sentence = EX_ITDA => ending = "OTHER_DA"

C3_Witness == pc = "done" /\ sentence = EX_ISSEOTDA /\ ending = "PAST"

(***************************************************************************)
(* More str helpers: whitespace, strip, split, join, find.                 *)
(***************************************************************************)
\* The characters str.strip() removes and the pattern \s matches (str.isspace):
\* tab, LF, VT, FF, CR, FS..US, space, NEL, NBSP, Ogham space, U+2000..U+200A,
\* line / paragraph separator, narrow NBSP, medium math space, ideographic space.
WHITESPACE ==
    {9, 10, 11, 12, 13, 28, 29, 30, 31, 32, 133, 160, 5760, 8232, 8233, 8239, 8287, 12288}
        \cup (8192..8202)

\* s.strip()
Strip(s) ==
    LET keep == {k \in 1..Len(s) : s[k] \notin WHITESPACE}
    IN  IF keep = {} THEN <<>> ELSE SubSeq(s, MinOf(keep), MaxOf(keep))

\* The elements of a set of integers in increasing order.
RECURSIVE SortedIn(_, _, _)
SortedIn(S, lo, hi) ==
    IF S = {} THEN <<>>
    ELSE IF lo = hi THEN <<lo>>
    ELSE LET mid == (lo + hi) \div 2
         IN  SortedIn({k \in S : k <= mid}, lo, mid) \o SortedIn({k \in S : k > mid}, mid + 1, hi)

Sorted(S) == IF S = {} THEN <<>> ELSE SortedIn(S, MinOf(S), MaxOf(S))

\* s.split(chr(sep)): the pieces between the occurrences of one character.
Split(s, sep) ==
    LET at == Sorted({k \in 1..Len(s) : s[k] = sep})
        cut == <<0>> \o at \o <<Len(s) + 1>>
    IN  [k \in 1..(Len(at) + 1) |-> SubSeq(s, cut[k] + 1, cut[k + 1] - 1)]

\* sep.join(parts)
RECURSIVE Join(_, _)
Join(parts, sep) ==
    IF Len(parts) = 0 THEN <<>>
    ELSE IF Len(parts) = 1 THEN parts[1]
    ELSE LET half == Len(parts) \div 2
         IN  Join(SubSeq(parts, 1, half), sep) \o sep
                 \o Join(SubSeq(parts, half + 1, Len(parts)), sep)

\* s[k:].startswith(p), k 1-based
StartsWithAt(s, k, p) ==
    k >= 1 /\ k + Len(p) - 1 <= Len(s) /\ SubSeq(s, k, k + Len(p) - 1) = p

\* The positions at which the literal p occurs in s.
Occurrences(s, p) == {k \in 1..Len(s) : s[k] = p[1] /\ StartsWithAt(s, k, p)}

\* p in s
Contains(s, p) == Len(p) = 0 \/ Occurrences(s, p) # {}

LF == <<10>>

(***************************************************************************)
(* validate.py: extract_body                                               *)
(***************************************************************************)
HEADER_PREFIX == <<35, 32, 69, 80, 45>>                                    \* "# EP-"
BLOCKQUOTE == <<62>>                                                       \* ">"
RULE == <<45, 45, 45>>                                                     \* "---"
PREVIEW_SPACED == <<42, 42, 45796, 51020, 32, 54868, 32, 50696, 44256, 42, 42>>  \* "**daeum hwa yego**"
PREVIEW_JOINED == <<42, 42, 45796, 51020, 54868, 32, 50696, 44256, 42, 42>>      \* "**daeumhwa yego**"
IMG_OPEN == <<91, 73, 77, 71, 58>>                                         \* "[IMG:"
RBRACKET == 93                                                             \* "]"

\* re.match(r"^\[IMG:[^\]]+\]$", s): s has no line break here.
IsImgLine(s) ==
    /\ StartsWith(s, IMG_OPEN)
    /\ Len(s) >= Len(IMG_OPEN) + 2
    /\ s[Len(s)] = RBRACKET
    /\ \A k \in (Len(IMG_OPEN) + 1)..(Len(s) - 1) : s[k] # RBRACKET

\* The loop of extract_body from line k on: the indices of the lines appended to
\* body_lines.
RECURSIVE body_loop(_, _, _)
body_loop(lines, k, in_body) ==
    IF k > Len(lines) THEN <<>>
    ELSE LET stripped == Strip(lines[k])
         IN  IF StartsWith(stripped, HEADER_PREFIX)
                 THEN body_loop(lines, k + 1, TRUE)
             ELSE IF StartsWith(stripped, BLOCKQUOTE) /\ ~in_body
                 THEN body_loop(lines, k + 1, in_body)
             ELSE IF ~in_body
                 THEN body_loop(lines, k + 1, stripped = RULE)
             ELSE IF StartsWith(stripped, PREVIEW_SPACED) \/ StartsWith(stripped, PREVIEW_JOINED)
                 THEN <<>>
             ELSE IF IsImgLine(stripped)
                 THEN body_loop(lines, k + 1, in_body)
             ELSE IF stripped = RULE
                 THEN body_loop(lines, k + 1, in_body)
             ELSE <<k>> \o body_loop(lines, k + 1, in_body)

\* body_lines of extract_body(t), as indices into t.split("\n").
body_line_numbers(t) == body_loop(Split(t, 10), 1, FALSE)

extract_body(t) ==
    LET lines == Split(t, 10)
        kept == body_loop(lines, 1, FALSE)
    IN  Join([k \in 1..Len(kept) |-> lines[kept[k]]], LF)

(***************************************************************************)
(* SpecBody: extract_body applied to every draft of a few lines, each line *)
(* one of the kinds of line the function tells apart.                      *)
(***************************************************************************)
MaxDraftLines == 4

LINE_HEADER == <<35, 32, 69, 80, 45, 48, 49, 58, 32, 49884, 51089>>       \* "# EP-01: sijak"
LINE_SUMMARY == <<62, 32, 54620, 51460, 32, 50836, 50557>>                \* "> hanjul yoyak"
LINE_RULE == <<45, 45, 45>>                                                \* "---"
LINE_IMG == <<91, 73, 77, 71, 58, 32, 44160, 93>>                          \* "[IMG: geom]"
LINE_PREVIEW == <<42, 42, 45796, 51020, 32, 54868, 32, 50696, 44256, 42, 42, 58, 32, 45149>>  \* "**daeum hwa yego**: kkeut"
LINE_PROSE == <<48376, 47928>>                                             \* "bonmun"
LINE_BLANK == <<>>

DraftLines == {LINE_HEADER, LINE_SUMMARY, LINE_RULE, LINE_IMG, LINE_PREVIEW, LINE_PROSE, LINE_BLANK}

InitBody ==
    /\ pc = "extract_body"
    /\ \E lines \in SeqsUpTo(DraftLines, MaxDraftLines) \ {<<>>} : text = Join(lines, LF)
    /\ body = <<>>
    /\ IdleCls /\ IdleF6 /\ IdleVal /\ IdleOut /\ IdleLore

ExtractBody ==
    /\ pc = "extract_body"
    /\ body' = extract_body(text)
    /\ pc' = "done"
    /\ UNCHANGED <<text, clsVars, f6Vars, valVars, outVars, loreVars>>

NextBody == ExtractBody

SpecBody == InitBody /\ [][NextBody]_vars

(***************************************************************************)
(* Claims about extract_body.                                              *)
(***************************************************************************)
InputLines == Split(text, 10)
IsHeaderLine(l) == StartsWith(Strip(l), <<35, 32, 69, 80, 45>>)
IsRuleLine(l) == Strip(l) = <<45, 45, 45>>
IsQuoteLine(l) == StartsWith(Strip(l), <<62>>)
IsPreviewLine(l) ==
    \/ StartsWith(Strip(l), <<42, 42, 45796, 51020, 32, 54868, 32, 50696, 44256, 42, 42>>)
    \/ StartsWith(Strip(l), <<42, 42, 45796, 51020, 54868, 32, 50696, 44256, 42, 42>>)
IsMarkerLine(l) ==
    LET s == Strip(l)
    IN  /\ Len(s) >= 7 /\ SubSeq(s, 1, 5) = <<91, 73, 77, 71, 58>> /\ s[Len(s)] = 93
        /\ \A k \in 6..(Len(s) - 1) : s[k] # 93

\* A draft laid out as the linter expects: the title header is its first line and
\* its only header line.
WellFormedDraft ==
    /\ IsHeaderLine(InputLines[1])
    /\ \A k \in 2..Len(InputLines) : ~IsHeaderLine(InputLines[k])

\* The lines the claim excludes from the body.
Excluded(k) ==
    \/ k = 1
    \/ IsQuoteLine(InputLines[k]) /\ \A j \in 1..(k - 1) : ~IsRuleLine(InputLines[j])
    \/ IsRuleLine(InputLines[k])
    \/ IsMarkerLine(InputLines[k])
    \/ \E j \in 1..k : IsPreviewLine(InputLines[j])

\* C4: the body returned by extract_body holds none of: the leading "# EP-" header
\* line, a summary blockquote line before the first "---", a "---" line, an
\* [IMG:...] line, a line at or after the first preview label line; every other
\* line after the header is kept, in order.
C4_BodyExcludesScaffolding ==
    (pc = "done" /\ WellFormedDraft) =>
        body = Join([k \in 1..Len(Sorted({j \in 1..Len(InputLines) : ~Excluded(j)}))
                        |-> InputLines[Sorted({j \in 1..Len(InputLines) : ~Excluded(j)})[k]]], LF)

(***************************************************************************)
(* validate.py: check_f6_sentence_endings                                  *)
(***************************************************************************)
SENTENCE_END == {46, 33, 63}            \* [.!?]
MIN_SENTENCE_LEN == 10
DIALOGUE_OPEN == {34, 8220, 12300}      \* '"', U+201C, U+300C
SINGLE_QUOTE == <<39>>                  \* "'"
RUN_LIMIT == 3
SAMPLE_COUNT == 3
SAMPLE_TAIL == 30

\* re.split(r'(?<=[.!?])\s+', line): the separators are the maximal runs of
\* whitespace that directly follow '.', '!' or '?'.
split_sentences(line) ==
    LET begins == Sorted({q \in 2..Len(line) :
                        line[q] \in WHITESPACE /\ line[q - 1] \in SENTENCE_END})
        RunEnd(q) == MaxOf({r \in q..Len(line) : \A k \in q..r : line[k] \in WHITESPACE})
        n == Len(begins)
        From(k) == IF k = 1 THEN 1 ELSE RunEnd(begins[k - 1]) + 1
        To(k) == IF k = n + 1 THEN Len(line) ELSE begins[k] - 1
    IN  [k \in 1..(n + 1) |-> SubSeq(line, From(k), To(k))]

\* Lines 164-171: the non-empty stripped parts of the non-empty stripped lines.
RECURSIVE collect_sentences(_, _)
collect_sentences(raw_lines, k) ==
    IF k > Len(raw_lines) THEN <<>>
    ELSE LET line == Strip(raw_lines[k])
             parts == split_sentences(line)
             kept == SelectSeq(parts, LAMBDA p : Strip(p) # <<>>)
         IN  IF line = <<>>
             THEN collect_sentences(raw_lines, k + 1)
             ELSE [j \in 1..Len(kept) |-> Strip(kept[j])] \o collect_sentences(raw_lines, k + 1)

f6_sentences(t) == collect_sentences(Split(extract_body(t), 10), 1)

\* Mutant: dialogue is not skipped.
f6_skipped_dialogue_kept(s) ==
    \/ Len(s) < MIN_SENTENCE_LEN
    \/ StartsWith(Strip(s), SINGLE_QUOTE) /\ EndsWith(Strip(s), SINGLE_QUOTE)

\* Lines 175-183: the test that skips a unit.
f6_skipped(s) ==
    \/ Len(s) < MIN_SENTENCE_LEN
    \/ Strip(s)[1] \in DIALOGUE_OPEN
    \/ StartsWith(Strip(s), SINGLE_QUOTE) /\ EndsWith(Strip(s), SINGLE_QUOTE)

\* Lines 173-186: sentence_texts.
f6_sentence_texts(units) ==
    LET kept == SelectSeq(units, LAMBDA s : ~f6_skipped(s))
    IN  [k \in 1..Len(kept) |-> Strip(kept[k])]

\* Lines 173-186: categories.
f6_categories(texts) == [k \in 1..Len(texts) |-> _classify_ending(texts[k])]

\* Lines 199-203 and 207-211: the group appended for the open run.
violation_group(st, texts) ==
    LET count == IF st.consecutive < SAMPLE_COUNT THEN st.consecutive ELSE SAMPLE_COUNT
    IN  [start |-> st.start,
         length |-> st.consecutive,
         samples |-> [j \in 1..count |-> LastN(texts[st.start + j], SAMPLE_TAIL)]]

\* Lines 192-205: one iteration of the run scan, at 0-based index idx.
scan_step(st, texts, idx, cat) ==
    IF cat = "PAST"
    THEN [st EXCEPT !.start = IF st.consecutive = 0 THEN idx ELSE st.start,
                    !.consecutive = st.consecutive + 1]
    ELSE [start |-> -1,
          consecutive |-> 0,
          violation_groups |->
              IF st.consecutive >= RUN_LIMIT
              THEN Append(st.violation_groups, violation_group(st, texts))
              ELSE st.violation_groups]

\* Mutant: the run still open at the end of the sequence is dropped.
scan_finish_dropped(st, texts) == st.violation_groups

\* Lines 206-211: after the loop.
scan_finish(st, texts) ==
    IF st.consecutive >= RUN_LIMIT
    THEN Append(st.violation_groups, violation_group(st, texts))
    ELSE st.violation_groups

RECURSIVE scan_loop(_, _, _, _)
scan_loop(st, texts, cats, idx) ==
    IF idx >= Len(cats) THEN scan_finish(st, texts)
    ELSE scan_loop(scan_step(st, texts, idx, cats[idx + 1]), texts, cats, idx + 1)

\* Lines 213-227: the record returned ("name", "criteria" and "detail" are
\* presentation of the same count and are left out).
f6_record(groups) ==
    [id |-> "F6", result |-> IF Len(groups) = 0 THEN "PASS" ELSE "FAIL", value |-> Len(groups)]

check_f6_sentence_endings(t) ==
    LET texts == f6_sentence_texts(f6_sentences(t))
    IN  f6_record(scan_loop([start |-> -1, consecutive |-> 0, violation_groups |-> <<>>],
                            texts, f6_categories(texts), 0))

(***************************************************************************)
(* The steps of check_f6_sentence_endings.                                 *)
(***************************************************************************)
scanState == [start |-> start, consecutive |-> consecutive, violation_groups |-> violation_groups]

F6Split ==
    /\ pc = "f6_split"
    /\ body' = extract_body(text)
    /\ sentences' = f6_sentences(text)
    /\ pc' = "f6_filter"
    /\ UNCHANGED <<text, sentence_texts, categories, i, start, consecutive, violation_groups>>
    /\ UNCHANGED <<clsVars, valVars, outVars, loreVars>>

F6Filter ==
    /\ pc = "f6_filter"
    /\ sentence_texts' = f6_sentence_texts(sentences)
    /\ categories' = f6_categories(f6_sentence_texts(sentences))
    /\ pc' = "f6_scan"
    /\ UNCHANGED <<sentences, i, start, consecutive, violation_groups>>
    /\ UNCHANGED <<draftVars, clsVars, valVars, outVars, loreVars>>

F6Scan(cat) ==
    /\ pc = "f6_scan"
    /\ i < Len(categories)
    /\ categories[i + 1] = cat
    /\ LET st == scan_step(scanState, sentence_texts, i, cat)
       IN  /\ start' = st.start
           /\ consecutive' = st.consecutive
           /\ violation_groups' = st.violation_groups
    /\ i' = i + 1
    /\ UNCHANGED <<pc, sentences, sentence_texts, categories>>
    /\ UNCHANGED <<draftVars, clsVars, valVars, outVars, loreVars>>

F6ScanPast == F6Scan("PAST")
F6ScanOtherDa == F6Scan("OTHER_DA")
F6ScanNonDa == F6Scan("NON_DA")

F6Finish ==
    /\ pc = "f6_scan"
    /\ i >= Len(categories)
    /\ violation_groups' = scan_finish(scanState, sentence_texts)
    /\ results' = <<f6_record(scan_finish(scanState, sentence_texts))>>
    /\ pc' = "f6_done"
    /\ UNCHANGED <<sentences, sentence_texts, categories, i, start, consecutive>>
    /\ UNCHANGED <<exists, overall, fail_items, draftVars, clsVars, outVars, loreVars>>

NextF6 == F6Split \/ F6Filter \/ F6ScanPast \/ F6ScanOtherDa \/ F6ScanNonDa \/ F6Finish

(***************************************************************************)
(* SpecRun: check_f6_sentence_endings on drafts whose units are one PAST,  *)
(* one OTHER_DA and one NON_DA sentence, one per line, in every order.     *)
(* SpecF6: the same on drafts that mix narrative sentences with fragments  *)
(* and dialogue, one unit per line or all units on one line.               *)
(***************************************************************************)
MaxCats == 6
MaxUnits == 4

UNIT_PAST == <<44536, 45716, 32, 44160, 51012, 32, 46308, 44256, 32, 49912, 50912, 45796, 46>>      \* "geuneun geomeul deulgo ssawotda."
UNIT_OTHER == <<44536, 45716, 32, 44160, 51012, 32, 46308, 44256, 32, 49912, 50868, 45796, 46>>     \* "geuneun geomeul deulgo ssaunda."
UNIT_NOUN == <<44536, 44163, 51008, 32, 50724, 47000, 46108, 32, 44160, 51032, 32, 51060, 47492>>   \* "geugeoseun oraedoen geomui ireum"
\* A PAST sentence of 34 characters.
UNIT_LONG_PAST ==
    <<44536, 45716, 32, 50724, 47000, 46108, 32, 44160, 51012, 32, 45458, 51060, 32, 46308, 44256, 32,
      51201, 51012, 32, 54693, 54644, 32, 45804, 47140, 44032, 32, 45149, 44620, 51648, 32, 49912,
      50912, 45796, 46>>
UNIT_FRAGMENT == <<49912, 50912, 45796, 46>>                                                         \* "ssawotda."
\* Dialogue opened by U+201C, by '"' and by U+300C, each followed by a PAST clause.
UNIT_DIALOGUE_CURLY == <<8220, 44032, 51088, 33, 8221, 32, 44536, 44032, 32, 53356, 44172, 32, 50808, 52452, 45796, 46>>
UNIT_DIALOGUE_ASCII == <<34, 44032, 51088, 33, 34, 32, 44536, 44032, 32, 53356, 44172, 32, 50808, 52452, 45796, 46>>
UNIT_DIALOGUE_CORNER == <<12300, 44032, 51088, 33, 12301, 32, 44536, 44032, 32, 53356, 44172, 32, 50808, 52452, 45796, 46>>
\* A thought wrapped in single quotes.
UNIT_THOUGHT == <<39, 51060, 44148, 32, 51221, 47568, 47196, 32, 51060, 49345, 54664, 45796, 46, 39>>

RunUnits == {UNIT_PAST, UNIT_OTHER, UNIT_NOUN}
F6Units == {UNIT_LONG_PAST, UNIT_OTHER, UNIT_NOUN, UNIT_FRAGMENT, UNIT_DIALOGUE_CURLY, UNIT_THOUGHT}
\* Two PAST sentences, a dialogue line, one PAST sentence: once per quote glyph.
F6Examples ==
    {<<UNIT_LONG_PAST, UNIT_PAST, d, UNIT_LONG_PAST>> :
        d \in {UNIT_DIALOGUE_CURLY, UNIT_DIALOGUE_ASCII, UNIT_DIALOGUE_CORNER}}

\* A draft: the title header, then the units joined by sep.
DraftOf(units, sep) == LINE_HEADER \o LF \o Join(units, sep)

InitF6Common ==
    /\ pc = "f6_split"
    /\ body = <<>>
    /\ IdleCls /\ IdleF6 /\ IdleVal /\ IdleOut /\ IdleLore

InitRun ==
    /\ \E units \in SeqsUpTo(RunUnits, MaxCats) : text = DraftOf(units, LF)
    /\ InitF6Common

InitF6 ==
    /\ \E units \in SeqsUpTo(F6Units, MaxUnits) \cup F6Examples : \E sep \in {LF, <<32>>} : text = DraftOf(units, sep)
    /\ InitF6Common

SpecRun == InitRun /\ [][NextF6]_vars
SpecF6 == InitF6 /\ [][NextF6]_vars

(***************************************************************************)
(* Claims about the run detection.                                         *)
(***************************************************************************)
\* <<s, l>> is a maximal run of PAST in categories: l entries from 0-based
\* position s are PAST, and the run can be extended on neither side.
IsMaximalPastRun(s, l) ==
    /\ l >= 1 /\ s >= 0 /\ s + l <= Len(categories)
    /\ \A k \in s..(s + l - 1) : categories[k + 1] = "PAST"
    /\ s = 0 \/ categories[s] # "PAST"
    /\ s + l = Len(categories) \/ categories[s + l + 1] # "PAST"

LongPastRuns ==
    {r \in (0..Len(categories)) \X (3..Len(categories)) : IsMaximalPastRun(r[1], r[2])}

ReportedRuns == [k \in 1..Len(violation_groups) |->
                    <<violation_groups[k].start, violation_groups[k].length>>]

IsExcludedUnit(u) ==
    \/ Len(u) < 10
    \/ u[1] \in {34, 8220, 12300}
    \/ u[1] = 39 /\ u[Len(u)] = 39

NarrativeUnits == SelectSeq(sentences, LAMBDA u : ~IsExcludedUnit(u))

\* C10: excluded units neither count toward nor interrupt a run: the scan runs
\* over the sequence with them removed, so two PAST sentences, a dialogue line and
\* one PAST sentence give one group of length 3; start indices and samples refer
\* to the filtered sequence, each group carrying min(length, 3) samples, the last
\* 30 characters of its first sentences.
C10_ExcludedUnitsDoNotInterrupt ==
    pc = "f6_done" =>
        /\ sentence_texts = NarrativeUnits
        /\ categories = [k \in 1..Len(NarrativeUnits) |-> ExpectedEnding(NarrativeUnits[k])]
        /\ {ReportedRuns[k] : k \in 1..Len(ReportedRuns)} = LongPastRuns
        /\ \A k \in 1..Len(violation_groups) :
              LET g == violation_groups[k]
              IN  /\ Len(g.samples) = IF g.length < 3 THEN g.length ELSE 3
                  /\ \A j \in 1..Len(g.samples) :
                        g.samples[j] = LastN(NarrativeUnits[g.start + j], 30)
        /\ (/\ Len(sentences) = 4
            /\ \A k \in {1, 2, 4} : ~IsExcludedUnit(sentences[k])
                                    /\ ExpectedEnding(sentences[k]) = "PAST"
            /\ sentences[3][1] \in {34, 8220, 12300})
              => ReportedRuns = <<(<<0, 3>>)>>

C10_Witness ==
    /\ pc = "f6_done"
    /\ sentences = <<UNIT_LONG_PAST, UNIT_PAST, UNIT_DIALOGUE_CURLY, UNIT_LONG_PAST>>
    /\ Len(violation_groups) = 1
    /\ violation_groups[1].length = 3
    /\ violation_groups[1].samples[3] = LastN(UNIT_LONG_PAST, 30)

(***************************************************************************)
(* validate.py: check_f1_char_count .. check_f5_next_preview               *)
(***************************************************************************)
F1_MIN == 9000
F1_MAX == 11000
F2_MIN == 3
F2_MAX == 5
F3_MIN == 3
F3_MAX == 6
F4_COUNT == 1

\* The record a check returns ("name", "criteria" and "detail" are presentation
\* of the same verdict and value and are left out).
check_record(id, passed, value) ==
    [id |-> id, result |-> IF passed THEN "PASS" ELSE "FAIL", value |-> value]

\* len(body.replace("\n", "").replace(" ", ""))
f1_char_count(b) == Cardinality({k \in 1..Len(b) : b[k] \notin {10, 32}})

check_f1_char_count(t) ==
    LET char_count == f1_char_count(extract_body(t))
    IN  check_record("F1", F1_MIN <= char_count /\ char_count <= F1_MAX, char_count)

\* len(re.findall(r"\[IMG:[^\]]+\]", text)): a match starts at "[IMG:" followed by
\* a character other than "]", provided a "]" follows, and runs to the first "]";
\* findall takes the matches from left to right without overlap.
RECURSIVE count_disjoint(_, _, _)
count_disjoint(opens, k, free) ==
    IF k > Len(opens) THEN 0
    ELSE IF opens[k][1] < free THEN count_disjoint(opens, k + 1, free)
    ELSE 1 + count_disjoint(opens, k + 1, opens[k][2] + 1)

f2_marker_count(t) ==
    LET closes == {k \in 1..Len(t) : t[k] = RBRACKET}
        Close(p) == {c \in closes : c > p + Len(IMG_OPEN)}
        cand == Sorted({p \in Occurrences(t, IMG_OPEN) :
                            /\ p + Len(IMG_OPEN) <= Len(t)
                            /\ t[p + Len(IMG_OPEN)] # RBRACKET
                            /\ Close(p) # {}})
    IN  count_disjoint([k \in 1..Len(cand) |-> <<cand[k], MinOf(Close(cand[k]))>>], 1, 1)

check_f2_img_markers(t) ==
    LET count == f2_marker_count(t)
    IN  check_record("F2", F2_MIN <= count /\ count <= F2_MAX, count)

check_f3_scene_separators(t) ==
    LET lines == Split(t, 10)
        count == Cardinality({k \in 1..Len(lines) : Strip(lines[k]) = RULE})
    IN  check_record("F3", F3_MIN <= count /\ count <= F3_MAX, count)

\* \d: the ASCII digits and the fullwidth digits (the pattern also accepts the
\* decimal digits of other scripts).
DIGITS == (48..57) \cup (65296..65305)
COLON == 58

\* re.findall(r"^# EP-\d+:", text, re.MULTILINE): at most one match per line.
f4_header_line(line) ==
    /\ StartsWith(line, HEADER_PREFIX)
    /\ \E c \in (Len(HEADER_PREFIX) + 2)..Len(line) :
          /\ line[c] = COLON
          /\ \A k \in (Len(HEADER_PREFIX) + 1)..(c - 1) : line[k] \in DIGITS

check_f4_markdown_structure(t) ==
    LET lines == Split(t, 10)
        count == Cardinality({k \in 1..Len(lines) : f4_header_line(lines[k])})
    IN  check_record("F4", count = F4_COUNT, count)

PREVIEW_HEAD == <<42, 42, 45796, 51020>>        \* "**daeum"
PREVIEW_MID == <<54868>>                        \* "hwa"
PREVIEW_TAIL == <<50696, 44256, 42, 42>>        \* "yego**"

\* The first position at or after k that holds no whitespace.
SkipWhitespace(t, k) ==
    MinOf({j \in k..(Len(t) + 1) : j = Len(t) + 1 \/ t[j] \notin WHITESPACE})

\* re.search(r"\*\*daeum\s*hwa\s*yego\*\*", text)
f5_has_preview(t) ==
    \E p \in Occurrences(t, PREVIEW_HEAD) :
        LET m == SkipWhitespace(t, p + Len(PREVIEW_HEAD))
        IN  /\ StartsWithAt(t, m, PREVIEW_MID)
            /\ StartsWithAt(t, SkipWhitespace(t, m + Len(PREVIEW_MID)), PREVIEW_TAIL)

check_f5_next_preview(t) ==
    check_record("F5", f5_has_preview(t), IF f5_has_preview(t) THEN 1 ELSE 0)

(***************************************************************************)
(* validate.py: validate                                                   *)
(***************************************************************************)
\* Line 247
fail_items_of(rs) ==
    LET failed == SelectSeq(rs, LAMBDA r : r.result = "FAIL")
    IN  [k \in 1..Len(failed) |-> failed[k].id]

\* Mutant: the verdict looks at the first record only.
overall_of_first(rs) == IF Len(rs) > 0 /\ rs[1].result = "FAIL" THEN "FAIL" ELSE "PASS"

\* Line 248
overall_of(rs) == IF fail_items_of(rs) # <<>> THEN "FAIL" ELSE "PASS"

\* Lines 232-234: the file does not exist.
ValidateMissing ==
    /\ pc = "validate"
    /\ ~exists
    /\ overall' = "ERROR"
    /\ pc' = "done"
    /\ UNCHANGED <<exists, results, fail_items, draftVars, clsVars, f6Vars, outVars, loreVars>>

\* Line 236
ValidateRead ==
    /\ pc = "validate"
    /\ exists
    /\ pc' = "F1"
    /\ UNCHANGED <<valVars, draftVars, clsVars, f6Vars, outVars, loreVars>>

\* Lines 238-245: one element of the list of results.
RunCheck(at, record, next) ==
    /\ pc = at
    /\ results' = Append(results, record)
    /\ pc' = next
    /\ UNCHANGED <<exists, overall, fail_items, draftVars, clsVars, f6Vars, outVars, loreVars>>

RunF1 == RunCheck("F1", check_f1_char_count(text), "F2")
RunF2 == RunCheck("F2", check_f2_img_markers(text), "F3")
RunF3 == RunCheck("F3", check_f3_scene_separators(text), "F4")
RunF4 == RunCheck("F4", check_f4_markdown_structure(text), "F5")
RunF5 == RunCheck("F5", check_f5_next_preview(text), "F6")
RunF6 == RunCheck("F6", check_f6_sentence_endings(text), "aggregate")

\* Lines 247-256
Aggregate ==
    /\ pc = "aggregate"
    /\ fail_items' = fail_items_of(results)
    /\ overall' = overall_of(results)
    /\ pc' = "done"
    /\ UNCHANGED <<exists, results, draftVars, clsVars, f6Vars, outVars, loreVars>>

NextValidate ==
    ValidateMissing \/ ValidateRead \/ RunF1 \/ RunF2 \/ RunF3 \/ RunF4 \/ RunF5 \/ RunF6 \/ Aggregate

(***************************************************************************)
(* SpecF1: check_f1_char_count on drafts whose body length lies around the *)
(* two limits, with blanks of several kinds inside the body.               *)
(***************************************************************************)
MaxF1Lines == 3

\* n copies of the syllable "ga" (U+AC00).
Filled(n) == [k \in 1..n |-> 44032]

\* Lines of 8999 and of 2000 characters, of one character, of two characters
\* around a space, and a line that holds one tab.
F1Lines == {Filled(8999), Filled(2000), Filled(1), <<44032, 32, 44032>>, <<9>>}

InitF1 ==
    /\ pc = "F1"
    /\ \E lines \in SeqsUpTo(F1Lines, MaxF1Lines) \ {<<>>} :
          text = LINE_HEADER \o LF \o Join(lines, LF)
    /\ body = <<>>
    /\ IdleCls /\ IdleF6 /\ IdleVal /\ IdleOut /\ IdleLore

CheckF1 ==
    /\ pc = "F1"
    /\ body' = extract_body(text)
    /\ results' = <<check_f1_char_count(text)>>
    /\ pc' = "done"
    /\ UNCHANGED <<text, exists, overall, fail_items, clsVars, f6Vars, outVars, loreVars>>

NextF1 == CheckF1

SpecF1 == InitF1 /\ [][NextF1]_vars

(***************************************************************************)
(* SpecValidate: validate on drafts built from h title headers, r rule     *)
(* lines, g image markers, a prose block, p PAST sentences and an optional *)
(* preview label, with every count taken on both sides of its limits.      *)
(***************************************************************************)
Repeat(line, n) == [k \in 1..n |-> line]

ValidateDraft(h, r, g, prose, p, preview) ==
    Join(Repeat(LINE_HEADER, h)
         \o <<LINE_RULE, prose>>
         \o Repeat(LINE_IMG, g)
         \o Repeat(LINE_RULE, r - 1)
         \o Repeat(UNIT_PAST, p)
         \o (IF preview THEN <<LINE_PREVIEW>> ELSE <<>>), LF)

InitValidate ==
    /\ pc = "validate"
    /\ \/ /\ exists = TRUE
          /\ \E h \in {0, 1, 2}, r \in {2, 3, 7}, g \in {2, 3, 6}, p \in {2, 3},
                preview \in BOOLEAN, prose \in {Filled(5), Filled(9000)} :
                text = ValidateDraft(h, r, g, prose, p, preview)
       \/ /\ exists = FALSE
          /\ text = <<>>
    /\ body = <<>> /\ results = <<>> /\ overall = "" /\ fail_items = <<>>
    /\ IdleCls /\ IdleF6 /\ IdleOut /\ IdleLore

SpecValidate == InitValidate /\ [][NextValidate]_vars

(***************************************************************************)
(* Claims about check_f1_char_count and validate.                          *)
(***************************************************************************)
\* The number of characters of s that are not whitespace.
NonBlankCount(s) == Cardinality({k \in 1..Len(s) : s[k] \notin WHITESPACE})

\* C7: check_f1_char_count returns PASS exactly when the whitespace-stripped
\* character count of the body lies in [9000, 11000], and its value is that count.
C7_F1CountsNonWhitespace ==
    pc = "done" =>
        /\ results[1].value = NonBlankCount(body)
        /\ results[1].result = "PASS" <=>
              (9000 <= NonBlankCount(body) /\ NonBlankCount(body) <= 11000)

CheckIds == <<"F1", "F2", "F3", "F4", "F5", "F6">>

\* C8: for an existing draft validate produces the six records F1..F6 whatever
\* their results; overall is FAIL iff some record failed, PASS otherwise;
\* fail_items holds exactly the ids of the failing checks, so a draft failing one
\* check reports FAIL with that id alone.
C8_AggregateVerdict ==
    (pc = "done" /\ exists) =>
        /\ [k \in 1..Len(results) |-> results[k].id] = CheckIds
        /\ \A k \in 1..Len(results) : results[k].result \in {"PASS", "FAIL"}
        /\ overall = "FAIL" <=> \E k \in 1..Len(results) : results[k].result = "FAIL"
        /\ overall \in {"PASS", "FAIL"}
        /\ {fail_items[k] : k \in 1..Len(fail_items)}
              = {results[k].id : k \in {j \in 1..Len(results) : results[j].result = "FAIL"}}
        /\ Len(fail_items) = Cardinality({j \in 1..Len(results) : results[j].result = "FAIL"})

\* A draft that passes F1..F5 and fails F6 alone.
C8_Witness ==
    /\ pc = "done" /\ exists
    /\ overall = "FAIL"
    /\ fail_items = <<"F6">>
    /\ Len(results) = 6

(***************************************************************************)
(* context_assembly.py: extract_ep_outline                                 *)
(***************************************************************************)
H3_PREFIX == <<35, 35, 35, 32>>                                            \* "### "
EP_PREFIX == <<69, 80, 45>>                                                \* "EP-"
NEXT_EP == <<10, 35, 35, 35, 32, 69, 80, 45>>                              \* "\n### EP-"
NEXT_RULE == <<10, 45, 45, 45>>                                            \* "\n---"
HOOK_LABEL == <<42, 42, 50644, 46377, 32, 54981, 42, 42, 58>>              \* "**ending hun**:"
BLANK_LINE == <<10, 10>>                                                   \* "\n\n"
NEXT_ITEM == <<10, 45>>                                                    \* "\n-"
LBRACKET == 91                                                             \* "["

\* str(n) for n >= 0
RECURSIVE Decimal(_)
Decimal(n) == IF n < 10 THEN <<48 + n>> ELSE Decimal(n \div 10) \o <<48 + (n % 10)>>

\* f"EP-{n:02d}"
ep_tag(n) == EP_PREFIX \o (IF n < 10 THEN <<48>> ELSE <<>>) \o Decimal(n)

\* The literal head of the block pattern: "### EP-NN:"
ep_marker(n) == H3_PREFIX \o ep_tag(n) \o <<COLON>>

\* re.search(lit + r"(.+?)(?=stop1|stop2|\Z)", t, re.DOTALL): the leftmost
\* occurrence of lit that has a character after it; group(1) takes that
\* character and then as few as reach a stop or the end of t.
block_match(t, lit, stops) ==
    LET heads == {p \in Occurrences(t, lit) : p + Len(lit) <= Len(t)}
    IN  IF heads = {} THEN [matched |-> FALSE, group1 |-> <<>>]
        ELSE LET a == MinOf(heads) + Len(lit)
                 j == MinOf({k \in (a + 1)..(Len(t) + 1) :
                                \/ k = Len(t) + 1
                                \/ \E s \in stops : StartsWithAt(t, k, s)})
             IN  [matched |-> TRUE, group1 |-> SubSeq(t, a, j - 1)]

ep_block(t, n) == block_match(t, ep_marker(n), {NEXT_EP, NEXT_RULE})

\* re.search(rf"### {ep_tag}:\s*(.+?)(?:\s*\[|$)", line) on the first line of
\* the match, then group(1).strip(); "" when there is no match.
ep_title_of(line, lit) ==
    LET r == SubSeq(line, Len(lit) + 1, Len(line))
        b == SkipWhitespace(r, 1)
        e == MinOf({k \in (b + 1)..(Len(r) + 1) :
                       \/ k = Len(r) + 1
                       \/ LET q == SkipWhitespace(r, k)
                          IN  q <= Len(r) /\ r[q] = LBRACKET})
    IN  IF b > Len(r) THEN <<>> ELSE Strip(SubSeq(r, b, e - 1))

\* Mutation of hook_of: the hook must be closed by a blank line or by a list
\* item, the end of the block does not close it.
hook_of_closed_only(block) ==
    LET heads == {p \in Occurrences(block, HOOK_LABEL) : p + Len(HOOK_LABEL) <= Len(block)}
        a == MinOf(heads) + Len(HOOK_LABEL)
        b == SkipWhitespace(block, a)
        closes == {k \in (b + 1)..Len(block) :
                      StartsWithAt(block, k, BLANK_LINE) \/ StartsWithAt(block, k, NEXT_ITEM)}
    IN  IF heads = {} \/ b > Len(block) \/ closes = {} THEN <<>>
        ELSE Strip(SubSeq(block, b, MinOf(closes) - 1))

\* re.search(r"\*\*ending hun\*\*:\s*(.+?)(?:\n\n|\n-|\Z)", block, re.DOTALL),
\* then group(1).strip(); "" when there is no match.  When only blanks follow
\* the label, group(1) is the last of them and the hook is "".
hook_of(block) ==
    LET heads == {p \in Occurrences(block, HOOK_LABEL) : p + Len(HOOK_LABEL) <= Len(block)}
        a == MinOf(heads) + Len(HOOK_LABEL)
        b == SkipWhitespace(block, a)
        j == MinOf({k \in (b + 1)..(Len(block) + 1) :
                       \/ k = Len(block) + 1
                       \/ StartsWithAt(block, k, BLANK_LINE)
                       \/ StartsWithAt(block, k, NEXT_ITEM)})
    IN  IF heads = {} \/ b > Len(block) THEN <<>>
        ELSE Strip(SubSeq(block, b, j - 1))

\* Lines 79-86: result["outline"] and result["ep_title"]
outline_of(t, n) ==
    LET match == ep_block(t, n)
    IN  IF match.matched THEN ep_marker(n) \o Strip(match.group1) ELSE <<>>

title_of(t, n) ==
    LET match == ep_block(t, n)
    IN  IF match.matched
        THEN ep_title_of(Split(ep_marker(n) \o match.group1, 10)[1], ep_marker(n))
        ELSE <<>>

\* Lines 89-95: result["prev_ending_hook"]
prev_ending_hook_of(t, n) ==
    LET prev_match == ep_block(t, n - 1)
    IN  IF n > 1 /\ prev_match.matched THEN hook_of(prev_match.group1) ELSE <<>>

extract_ep_outline(t, n) ==
    [outline |-> outline_of(t, n),
     prev_ending_hook |-> prev_ending_hook_of(t, n),
     ep_title |-> title_of(t, n)]

OutlineCurrent ==
    /\ pc = "outline"
    /\ result' = [result EXCEPT !.outline = outline_of(text, ep_num),
                                !.ep_title = title_of(text, ep_num)]
    /\ pc' = "prev_hook"
    /\ UNCHANGED <<ep_num, clsVars, draftVars, f6Vars, valVars, loreVars>>

OutlinePrev ==
    /\ pc = "prev_hook"
    /\ result' = [result EXCEPT !.prev_ending_hook = prev_ending_hook_of(text, ep_num)]
    /\ pc' = "outline_done"
    /\ UNCHANGED <<ep_num, clsVars, draftVars, f6Vars, valVars, loreVars>>

NextOutline == OutlineCurrent \/ OutlinePrev

(***************************************************************************)
(* Inputs of extract_ep_outline: an outline document that holds the block  *)
(* of EP-01, built from the tokens of the format, and the heading of EP-02.*)
(***************************************************************************)
MaxBlockTokens == 4
MaxEp == 3

HOOK_BOLD == SubSeq(HOOK_LABEL, 1, Len(HOOK_LABEL) - 1)                    \* "**ending hun**"
TITLE_LINE == <<32, 51228, 47785, 32, 91, 83, 93>>                         \* " jemok [S]"
OutlineTokens == {LF, RULE, HOOK_BOLD, <<COLON>>, <<32>>, <<45149>>}
OutlineTails == {<<>>, LF, TITLE_LINE}

OutlineDocument(b1, b2) == ep_marker(1) \o Join(b1, <<>>) \o ep_marker(2) \o b2

InitOutline ==
    /\ pc = "outline"
    /\ \E b1 \in SeqsUpTo(OutlineTokens, MaxBlockTokens), b2 \in OutlineTails :
          text = OutlineDocument(b1, b2)
    /\ ep_num \in 1..MaxEp
    /\ result = [outline |-> <<>>, prev_ending_hook |-> <<>>, ep_title |-> <<>>]
    /\ body = <<>>
    /\ IdleCls /\ IdleF6 /\ IdleVal /\ IdleLore

SpecOutline == InitOutline /\ [][NextOutline]_vars

\* The marker of episode n as the format writes it, for n < 100.
MarkerOf(n) == <<35, 35, 35, 32, 69, 80, 45, 48 + (n \div 10), 48 + (n % 10), 58>>

\* The document holds a block of episode n: its marker with text after it.
HasBlock(t, n) == \E p \in Occurrences(t, MarkerOf(n)) : p + Len(MarkerOf(n)) <= Len(t)

\* The block of episode n: the text after its first marker, up to the next
\* line that opens an episode heading or a rule, or to the end of the document.
BlockText(t, n) ==
    LET a == MinOf(Occurrences(t, MarkerOf(n))) + Len(MarkerOf(n))
        ends == {k \in (a + 1)..Len(t) :
                    StartsWithAt(t, k, NEXT_EP) \/ StartsWithAt(t, k, NEXT_RULE)}
    IN  SubSeq(t, a, IF ends = {} THEN Len(t) ELSE MinOf(ends) - 1)

BothBlocks ==
    /\ pc = "outline_done"
    /\ ep_num > 1
    /\ HasBlock(text, ep_num)
    /\ HasBlock(text, ep_num - 1)

\* The label is followed, after its colon, by text that is not blank.
LabelWithText(block) ==
    \E p \in Occurrences(block, HOOK_LABEL) :
        \E k \in (p + Len(HOOK_LABEL))..Len(block) : block[k] \notin WHITESPACE

\* C5 as stated: for N > 1 and a document with the blocks of N and of N-1 the
\* outline is not empty, and the hook is not empty whenever the block of N-1
\* contains the bold ending-hook label.
C5_Original ==
    BothBlocks =>
        /\ result.outline # <<>>
        /\ Contains(BlockText(text, ep_num - 1), HOOK_BOLD) => result.prev_ending_hook # <<>>

\* C5, amended: for N > 1 and a document with the blocks of N and of N-1 the
\* outline is not empty, and the hook is not empty whenever the block of N-1
\* contains the label, its colon, and text that is not blank after the colon.
C5_HookWhenLabelled ==
    BothBlocks =>
        /\ result.outline # <<>>
        /\ LabelWithText(BlockText(text, ep_num - 1)) => result.prev_ending_hook # <<>>

C5_Witness ==
    /\ BothBlocks
    /\ LabelWithText(BlockText(text, ep_num - 1))
    /\ result.prev_ending_hook = <<45149>>
    /\ StartsWith(result.outline, MarkerOf(2))
    /\ Len(result.outline) > Len(MarkerOf(2))

(***************************************************************************)
(* context_assembly.py: the keyword tables (each str as its code points,   *)
(* in the order of the source)                                             *)
(***************************************************************************)
WORLD_CATEGORIES == <<"energy", "geography", "integration", "politics", "dragon", "circle">>

WORLD_KEYWORDS ==
    [energy |->
        [keywords |->
            <<<<51204, 53804>>,
              <<47560, 45208>>,
              <<44592, 50868>>,
              <<54253, 51452>>,
              <<47560, 48277>>,
              <<50640, 45320, 51648>>,
              <<49436, 53364>>,
              <<44277, 44201>>,
              <<48169, 50612>>,
              <<44160>>>>,
         sections |->
            <<<<50640, 45320, 51648, 50896, 32, 52404, 44228>>,
              <<50640, 45320, 51648, 32, 51089, 50857, 32, 50896, 47532>>,
              <<50504, 51221, 54868, 32, 47588, 44060, 52404>>,
              <<47560, 45208, 32, 50868, 50857, 32, 47700, 52964, 45768, 51608>>,
              <<47560, 48277, 32, 48516, 47448, 32, 52404, 44228>>,
              <<49892, 51204, 32, 47560, 48277, 32, 50868, 50857>>>>],
     geography |->
        [keywords |->
            <<<<47336, 48120, 45208, 47532, 50500>>,
              <<50500, 49828, 53944, 46972>>,
              <<53356, 47200, 54616, 51076>>,
              <<49892, 48148, 47116>>,
              <<49688, 46020>>,
              <<46020, 49884>>,
              <<49714>>,
              <<49328, 47589>>,
              <<46041, 44404>>>>,
         sections |->
            <<<<49324, 54924, 47, 44144, 51216>>,
              <<51648, 47532, 32, 44060, 50836>>,
              <<44144, 51216, 47, 44592, 44288, 32, 51060, 51473, 32, 44396, 51312>>>>],
     integration |->
        [keywords |->
            <<<<46608, 50500, 47532>>,
              <<53685, 54633>>,
              <<51312, 50984>>,
              <<46041, 51201>>,
              <<44844, 44592>>,
              <<51, 50640, 45320, 51648>>,
              <<54644, 52404>>>>,
         sections |->
            <<<<50640, 45320, 51648, 32, 53685, 54633, 32, 51060, 47200>>,
              <<46608, 50500, 47532, 32, 51312, 50984>>,
              <<46041, 51201, 32, 51312, 50984>>>>],
     politics |->
        [keywords |->
            <<<<50773, 49892>>,
              <<44204, 51228, 54028>>,
              <<49900, 49324>>,
              <<52852, 47476, 47560>>,
              <<51221, 52824>>,
              <<50773, 44032>>,
              <<47609, 50557>>>>,
         sections |->
            <<<<50773, 44032, 45, 50644, 53440, 47532, 49828, 32, 44288, 44228>>,
              <<50773, 47549, 32, 52488, 45733, 47141, 50896>>>>],
     dragon |->
        [keywords |->
            <<<<46300, 47000, 44260>>,
              <<53076, 50724, 47532>>,
              <<54840, 45432, 50724>>,
              <<46300, 47000, 44256, 45768, 50504>>,
              <<54260, 47532, 47784, 54532>>>>,
         sections |->
            <<<<46300, 47000, 44256, 45768, 50504>>,
              <<46300, 47000, 44260, 32, 49324, 54924, 32, 44508, 52825>>>>],
     circle |->
        [keywords |->
            <<>>,
         sections |->
            <<<<49436, 53364, 32, 52404, 44228>>>>]]

CHARACTER_NAMES ==
    <<[name |-> <<49324, 51068, 46972, 51592>>,
       header |-> <<49324, 51068, 46972, 51592, 32, 50644, 53440, 47532, 49828>>],
      [name |-> <<47560, 51068, 49828>>,
       header |-> <<47560, 51068, 49828, 32, 50644, 53440, 47532, 49828>>],
      [name |-> <<52852, 47476, 47560>>,
       header |-> <<52852, 47476, 47560, 32, 50644, 53440, 47532, 49828>>],
      [name |-> <<49548, 54588, 50500>>,
       header |-> <<49548, 54588, 50500>>],
      [name |-> <<53076, 50724, 47532>>,
       header |-> <<52768, 47700, 53440, 51060, 32, 53076, 50724, 47532>>],
      [name |-> <<50508, 46300, 47533>>,
       header |-> <<50508, 46300, 47533, 32, 50500, 50864, 47120, 47532, 49828>>],
      [name |-> <<47336, 49884, 50504>>,
       header |-> <<47336, 49884, 50504, 32, 50500, 50864, 47120, 47532, 49828>>]>>

(***************************************************************************)
(* context_assembly.py: extract_characters, extract_world_sections         *)
(***************************************************************************)
H2_PREFIX == <<35, 35, 32>>                                                \* "## "
NEXT_H2 == <<10, 35, 35, 32>>                                              \* "\n## "
NEXT_H3 == <<10, 35, 35, 35, 32>>                                          \* "\n### "
ELISION == <<10, 91, 46, 46, 46, 32, 51060, 54616, 32, 49373, 47029, 93>>  \* "\n[... iha saengnyak]"
SECTION_GAP == <<10, 10>>                                                  \* "\n\n"
CHARACTER_LINES == 80
WORLD_LINES == 60
DEFAULT_CHARACTER == CHARACTER_NAMES[1].header

\* The elements of a sequence.
Range(s) == {s[k] : k \in 1..Len(s)}

\* Mutation of truncate: the cut section carries no marker.
truncate_unmarked(section, limit) ==
    LET lines == Split(section, 10)
    IN  IF Len(lines) > limit THEN Join(SubSeq(lines, 1, limit), LF) ELSE section

\* lines = section.split("\n"); if len(lines) > limit: the first limit lines
\* and the elision marker.
truncate(section, limit) ==
    LET lines == Split(section, 10)
    IN  IF Len(lines) > limit THEN Join(SubSeq(lines, 1, limit), LF) \o ELISION ELSE section

\* Lines 102-109: the headers of the names found in the outline, in the order
\* of CHARACTER_NAMES; the default header when none is found.
mentioned_of(o) ==
    LET Named(e) == Contains(o, e.name)
        found == SelectSeq(CHARACTER_NAMES, Named)
    IN  IF found = <<>> THEN <<DEFAULT_CHARACTER>>
        ELSE [k \in 1..Len(found) |-> found[k].header]

\* Lines 113-120 and 143-149: the section of one header, cut to limit lines.
section_match(t, prefix, header, stops) == block_match(t, prefix \o header, stops)

section_of(t, prefix, header, stops, limit) ==
    truncate(prefix \o header \o section_match(t, prefix, header, stops).group1, limit)

\* Lines 111-121: the sections of the headers that the document has, in the
\* order of the headers.
sections_in_order(t, headers, prefix, stops, limit) ==
    LET Found(h) == section_match(t, prefix, h, stops).matched
        found == SelectSeq(headers, Found)
    IN  [k \in 1..Len(found) |-> section_of(t, prefix, found[k], stops, limit)]

extract_characters(t, o) ==
    Join(sections_in_order(t, mentioned_of(o), H2_PREFIX, {NEXT_H2}, CHARACTER_LINES), SECTION_GAP)

\* Mutation of category_hit: only the first keyword of a category is tried.
category_hit_first_keyword(o, category) ==
    LET keywords == WORLD_KEYWORDS[category].keywords
    IN  keywords # <<>> /\ Contains(o, keywords[1])

\* Lines 135-137: some keyword of the category occurs in the outline.
category_hit(o, category) ==
    \E keyword \in Range(WORLD_KEYWORDS[category].keywords) : Contains(o, keyword)

\* Lines 128-138: the set needed_sections.
RECURSIVE needed_loop(_, _, _)
needed_loop(o, c, needed) ==
    IF c > Len(WORLD_CATEGORIES) THEN needed
    ELSE needed_loop(o, c + 1,
             IF category_hit(o, WORLD_CATEGORIES[c])
             THEN needed \cup Range(WORLD_KEYWORDS[WORLD_CATEGORIES[c]].sections)
             ELSE needed)

needed_sections_of(o) == needed_loop(o, 1, Range(WORLD_KEYWORDS["circle"].sections))

\* The orders in which a set can be iterated.
Orders(S) ==
    {f \in [1..Cardinality(S) -> S] : \A a, b \in 1..Cardinality(S) : a # b => f[a] # f[b]}

\* The section names of needed that the document has a section for.
world_found(t, needed) ==
    {name \in needed : section_match(t, H3_PREFIX, name, {NEXT_H3, NEXT_H2}).matched}

ExtractCharacters ==
    /\ pc = "characters"
    /\ mentioned' = mentioned_of(outline)
    /\ extracted' = sections_in_order(characters_text, mentioned_of(outline), H2_PREFIX,
                                      {NEXT_H2}, CHARACTER_LINES)
    /\ characters' = extract_characters(characters_text, outline)
    /\ pc' = "world"
    /\ UNCHANGED <<outline, characters_text, world_text, needed_sections, world>>
    /\ UNCHANGED <<clsVars, draftVars, f6Vars, valVars, outVars>>

\* needed_sections is a set of str: the order of the loop of line 142 is the
\* iteration order of the set, which any order can be.
ExtractWorld ==
    /\ pc = "world"
    /\ needed_sections' = needed_sections_of(outline)
    /\ \E order \in Orders(world_found(world_text, needed_sections_of(outline))) :
          /\ extracted' = sections_in_order(world_text, order, H3_PREFIX,
                                            {NEXT_H3, NEXT_H2}, WORLD_LINES)
          /\ world' = Join(extracted', SECTION_GAP)
    /\ pc' = "lore_done"
    /\ UNCHANGED <<outline, characters_text, world_text, mentioned, characters>>
    /\ UNCHANGED <<clsVars, draftVars, f6Vars, valVars, outVars>>

NextLore == ExtractCharacters \/ ExtractWorld

(***************************************************************************)
(* Inputs of the lore retriever: outlines over a few syllables of the      *)
(* keywords and outlines of the format; documents of sections whose        *)
(* lengths lie around the limits.                                          *)
(***************************************************************************)
MaxOutlineLen == 3
MaxSections == 2

OutlineAlphabet == {44160, 49714, 50773, 44032, 51032}                     \* geom, sup, wang, ga, ui
EX_NO_KEYWORD == <<51032, 48120, 32, 50630, 45716, 32, 53581, 49828, 53944>>  \* "uimi eomneun tekseuteu"
EX_DRAGON == <<46300, 47000, 44260>>                                       \* "deuraegon"
EX_INTEGRATION == <<46608, 50500, 47532, 32, 53685, 54633>>                \* "ttoari tonghap"
EX_KARMA == <<52852, 47476, 47560, 32, 49900, 49324>>                      \* "kareuma simsa"
EX_ENERGY3 == <<51, 50640, 45320, 51648, 32, 54644, 52404>>                \* "3eneoji haeche"
EX_CAST ==                                                                 \* "Silaz-wa Sophia, deuraegon-ui sup"
    <<49324, 51068, 46972, 51592, 50752, 32, 49548, 54588, 50500, 44, 32,
      46300, 47000, 44260, 51032, 32, 49714>>
DocOutlines == {EX_NO_KEYWORD, EX_CAST}
Outlines ==
    SeqsUpTo(OutlineAlphabet, MaxOutlineLen)
        \cup {EX_NO_KEYWORD, EX_DRAGON, EX_INTEGRATION, EX_KARMA, EX_ENERGY3, EX_CAST}

CIRCLE == WORLD_KEYWORDS["circle"].sections[1]                             \* "seokeul chegye"
GEOGRAPHY == WORLD_KEYWORDS["geography"].sections[2]                       \* "jiri gaeyo"
SOPHIA == CHARACTER_NAMES[4].header
PART_HEADING == H2_PREFIX \o <<44144, 51216>>                              \* "## geojeom"
WorldHeadings == {H3_PREFIX \o CIRCLE, H3_PREFIX \o GEOGRAPHY, PART_HEADING}
CharacterHeadings == {H2_PREFIX \o DEFAULT_CHARACTER, H2_PREFIX \o SOPHIA}

\* A heading line and n lines of text under it.
SectionLines(heading, n) == <<heading>> \o [k \in 1..n |-> <<120>>]
SectionSizes(limit) == {0, limit - 1, limit}
SectionsOf(headings, limit) ==
    {SectionLines(h, n) : h \in headings, n \in SectionSizes(limit)}

Flatten(ss) == Join(ss, <<>>)

\* The documents of up to MaxSections sections, with and without a final line break.
Documents(headings, limit) ==
    {Join(Flatten(ss), LF) \o tail :
        ss \in SeqsUpTo(SectionsOf(headings, limit), MaxSections), tail \in {<<>>, LF}}

DefaultCharacters ==
    Join(SectionLines(H2_PREFIX \o DEFAULT_CHARACTER, CHARACTER_LINES)
         \o SectionLines(H2_PREFIX \o SOPHIA, 1), LF)
DefaultWorld ==
    Join(SectionLines(H3_PREFIX \o CIRCLE, WORLD_LINES - 1)
         \o SectionLines(H3_PREFIX \o GEOGRAPHY, WORLD_LINES), LF)

InitLore ==
    /\ pc = "characters"
    /\ \/ /\ outline \in Outlines
          /\ characters_text = DefaultCharacters
          /\ world_text = DefaultWorld
       \/ /\ outline \in DocOutlines
          /\ characters_text \in Documents(CharacterHeadings, CHARACTER_LINES)
          /\ world_text = DefaultWorld
       \/ /\ outline \in DocOutlines
          /\ characters_text = DefaultCharacters
          /\ world_text \in Documents(WorldHeadings, WORLD_LINES)
    /\ mentioned = <<>> /\ needed_sections = {} /\ extracted = <<>>
    /\ characters = <<>> /\ world = <<>>
    /\ IdleCls /\ IdleDraft /\ IdleF6 /\ IdleVal /\ IdleOut

SpecLore == InitLore /\ [][NextLore]_vars

(***************************************************************************)
(* The lore retriever's contract.                                          *)
(***************************************************************************)
\* The categories with a trigger keyword that occurs in the outline.
HitCategories(o) ==
    {c \in Range(WORLD_CATEGORIES) :
        \E k \in 1..Len(WORLD_KEYWORDS[c].keywords) :
            Occurrences(o, WORLD_KEYWORDS[c].keywords[k]) # {}}

TargetSections(c) == {WORLD_KEYWORDS[c].sections[k] : k \in 1..Len(WORLD_KEYWORDS[c].sections)}

\* The document has the section of a heading: the heading with text after it.
HasSection(t, heading) ==
    \E p \in Occurrences(t, heading) : p + Len(heading) <= Len(t)

\* The section of a heading: from its first occurrence up to the next line
\* that opens with one of the closing prefixes, or to the end of the document.
SectionText(t, heading, closing) ==
    LET p == MinOf(Occurrences(t, heading))
        ends == {k \in (p + Len(heading) + 1)..Len(t) :
                    \E c \in closing : StartsWithAt(t, k, <<10>> \o c)}
    IN  SubSeq(t, p, IF ends = {} THEN Len(t) ELSE MinOf(ends) - 1)

\* C6: the selected section names are the always-included one and the targets
\* of exactly the categories with a keyword in the outline; the always-included
\* section is selected for every outline and is in the output whenever the
\* world document has it.
C6_SelectedSections ==
    pc = "lore_done" =>
        /\ needed_sections = {CIRCLE} \cup UNION {TargetSections(c) : c \in HitCategories(outline)}
        /\ CIRCLE \in needed_sections
        /\ Len(extracted) =
               Cardinality({name \in needed_sections : HasSection(world_text, H3_PREFIX \o name)})
        /\ HasSection(world_text, H3_PREFIX \o CIRCLE) =>
               /\ \E k \in 1..Len(extracted) : StartsWith(extracted[k], H3_PREFIX \o CIRCLE)
               /\ Contains(world, H3_PREFIX \o CIRCLE)

C6_Witness ==
    /\ pc = "lore_done"
    /\ HitCategories(outline) = {"politics", "geography"}
    /\ Cardinality(needed_sections) = 6
    /\ HasSection(world_text, H3_PREFIX \o CIRCLE)
    /\ Len(extracted) = 2

\* The number of lines of a str, and its first n lines.
LineCount(s) == 1 + Cardinality({k \in 1..Len(s) : s[k] = 10})
FirstLines(s, n) ==
    LET breaks == {k \in 1..Len(s) : s[k] = 10}
        cut == CHOOSE k \in breaks : Cardinality({j \in breaks : j <= k}) = n
    IN  IF Cardinality(breaks) < n THEN s ELSE SubSeq(s, 1, cut - 1)

\* A section as the retriever must return it.
Bounded(section, limit) ==
    IF LineCount(section) <= limit THEN section ELSE FirstLines(section, limit) \o ELISION

\* C9: every extracted character section is the section of a selected header,
\* unchanged when it has at most 80 lines and else its first 80 lines and the
\* marker line; every extracted world section likewise with 60 lines.
C9_SectionsBounded ==
    /\ pc = "world" =>
          \A k \in 1..Len(extracted) :
              /\ LineCount(extracted[k]) <= 80 + 1
              /\ \E h \in Range(mentioned) :
                    /\ HasSection(characters_text, H2_PREFIX \o h)
                    /\ extracted[k] =
                           Bounded(SectionText(characters_text, H2_PREFIX \o h, {H2_PREFIX}), 80)
    /\ pc = "lore_done" =>
          \A k \in 1..Len(extracted) :
              /\ LineCount(extracted[k]) <= 60 + 1
              /\ \E name \in needed_sections :
                    /\ HasSection(world_text, H3_PREFIX \o name)
                    /\ extracted[k] =
                           Bounded(SectionText(world_text, H3_PREFIX \o name, {H3_PREFIX, H2_PREFIX}), 60)

C9_Witness ==
    /\ pc = "lore_done"
    /\ EndsWith(characters, ELISION)
    /\ \E a, b \in 1..Len(extracted) :
          /\ LineCount(extracted[a]) = 61
          /\ EndsWith(extracted[a], ELISION)
          /\ LineCount(extracted[b]) = 60
          /\ ~EndsWith(extracted[b], ELISION)

====
